---- MODULE Spec2Model ----
(***************************************************************************)
(* Model of server.js: the socket.io relay of the meeting room.  The       *)
(* module-level state (drawingHistory, userNames, screenSharerId) and one  *)
(* action per socket event handler registered in io.on('connection').      *)
(* Handlers run to completion on the Node event loop, so each handler is   *)
(* one atomic action.                                                      *)
(***************************************************************************)
EXTENDS Integers, Sequences, FiniteSets, TLC

\* ---------------------------------------------------------------- bounds
NumConns == 2      \* socket ids that may ever connect
MaxId    == 2      \* distinct client-assigned DrawOp ids
MaxHist  == 2      \* cap on the length of drawingHistory
MaxBatch == 2      \* cap on the length of a batch payload
MaxJoins == 2      \* cap on the number of join-room events processed

Conns == 1..NumConns
Null  == 0                       \* JS null (falsy, like no socket id)
Ids   == 1..MaxId
Vers  == {0, 1}                  \* opaque tool-specific content of a DrawOp
DrawOp == [id : Ids, v : Vers]
NameInputs == {"", "Ann"}        \* "" stands for every falsy name argument

VARIABLES
    drawingHistory,  \* server.js:42  sequence of DrawOp
    userNames,       \* server.js:43  Map in insertion order: seq of [id, name]
    screenSharerId,  \* server.js:44  socket id or Null
    status,          \* per socket: "new", "unjoined", "joined", "disconnected"
    crashed,         \* TRUE once a handler threw (uncaught: the process dies)
    emitted,         \* the emit calls of the last handler, in program order
    lastEvent,       \* the last inbound event processed: [name, from, arg]
    initSeen,        \* sockets that have been sent their init snapshot
    joins,           \* number of join-room events processed
    leaves           \* number of disconnect events processed

vars == <<drawingHistory, userNames, screenSharerId, status, crashed,
          emitted, lastEvent, initSeen, joins, leaves>>

\* ------------------------------------------------------------- transport
\* Sockets currently in the namespace.
Connected == {c \in Conns : status[c] \in {"unjoined", "joined"}}

\* io.emit(...): every connected socket.
IoEmitTargets == Connected

\* Variant of BroadcastTargets that echoes to the sender too.
BroadcastTargetsAll(s) == Connected

\* socket.broadcast.emit(...): every connected socket but the sender.
BroadcastTargets(s) == Connected \ {s}

\* Variant of RoomTargets that falls back to everybody for an unknown room.
RoomTargetsOrAll(room) == IF room \in Connected THEN {room} ELSE Connected

\* io.to(room).emit(...): each socket is in the room named by its own id.
RoomTargets(room) == {c \in Connected : c = room}

Emit(ev, to, data) == [ev |-> ev, to |-> to, data |-> data]

\* An inbound event: its name, the emitting socket and its argument.
Event(name, from, arg) == [name |-> name, from |-> from, arg |-> arg]

\* --------------------------------------------------------------- helpers
\* Array.prototype.findIndex(i => i.id === id): 1-based index, -1 if none.
RECURSIVE FindIndexFrom(_, _, _)
FindIndexFrom(hist, id, k) ==
    IF k > Len(hist) THEN -1
    ELSE IF hist[k].id = id THEN k
    ELSE FindIndexFrom(hist, id, k + 1)

FindIndex(hist, id) == FindIndexFrom(hist, id, 1)

\* Variant of UpdateAll that appends an op whose id is not found.
RECURSIVE UpdateAllUpsert(_, _)
UpdateAllUpsert(hist, items) ==
    IF items = <<>> THEN hist
    ELSE LET updated == Head(items)
             index   == FindIndex(hist, updated.id)
             next    == IF index # -1 THEN [hist EXCEPT ![index] = updated]
                        ELSE Append(hist, updated)
         IN UpdateAllUpsert(next, Tail(items))

\* updatedItems.forEach(updated => { ... drawingHistory[index] = updated })
RECURSIVE UpdateAll(_, _)
UpdateAll(hist, items) ==
    IF items = <<>> THEN hist
    ELSE LET updated == Head(items)
             index   == FindIndex(hist, updated.id)
             next    == IF index # -1 THEN [hist EXCEPT ![index] = updated]
                        ELSE hist
         IN UpdateAll(next, Tail(items))

\* ids.includes(x) for an array or a string of one-character ids.
Includes(items, x) == \E k \in DOMAIN items : items[k] = x

\* Variant of FilterOut with the test inverted: keeps the listed ids.
RECURSIVE FilterKeep(_, _)
FilterKeep(hist, items) ==
    IF hist = <<>> THEN <<>>
    ELSE IF Includes(items, Head(hist).id)
         THEN <<Head(hist)>> \o FilterKeep(Tail(hist), items)
    ELSE FilterKeep(Tail(hist), items)

\* drawingHistory.filter(item => !ids.includes(item.id))
RECURSIVE FilterOut(_, _)
FilterOut(hist, items) ==
    IF hist = <<>> THEN <<>>
    ELSE IF Includes(items, Head(hist).id) THEN FilterOut(Tail(hist), items)
    ELSE <<Head(hist)>> \o FilterOut(Tail(hist), items)

\* Array.from(userNames.keys())
RECURSIVE Keys(_)
Keys(m) == IF m = <<>> THEN <<>> ELSE <<Head(m).id>> \o Keys(Tail(m))

HasKey(m, k) == \E i \in DOMAIN m : m[i].id = k

\* userNames.get(k): the name, or "" (falsy, like undefined) when absent.
MapGet(m, k) ==
    IF HasKey(m, k) THEN m[CHOOSE i \in DOMAIN m : m[i].id = k].name ELSE ""

\* Variant of MapSet that always appends, as pushing to an array would.
MapSetAppend(m, k, name) == Append(m, [id |-> k, name |-> name])

\* userNames.set(k, name): replace in place, or append a new entry.
MapSet(m, k, name) ==
    IF HasKey(m, k)
    THEN [i \in DOMAIN m |-> IF m[i].id = k THEN [id |-> k, name |-> name]
                             ELSE m[i]]
    ELSE Append(m, [id |-> k, name |-> name])

\* Variant of MapDelete that leaves the entry in the map.
MapDeleteNoop(m, k) == m

\* userNames.delete(k)
RECURSIVE MapDelete(_, _)
MapDelete(m, k) ==
    IF m = <<>> THEN <<>>
    ELSE IF Head(m).id = k THEN MapDelete(Tail(m), k)
    ELSE <<Head(m)>> \o MapDelete(Tail(m), k)

\* Variant of Without that filters nothing out.
WithoutNothing(s, x) == s

\* existingUsers: Array.from(userNames.keys()).filter(id => id !== socket.id)
RECURSIVE Without(_, _)
Without(s, x) ==
    IF s = <<>> THEN <<>>
    ELSE IF Head(s) = x THEN Without(Tail(s), x)
    ELSE <<Head(s)>> \o Without(Tail(s), x)

\* Variant of InitPayload that sends an empty snapshot.
InitPayloadEmpty(hist) == [history |-> <<>>]

\* socket.emit('init', { history: drawingHistory })
InitPayload(hist) == [history |-> hist]

\* Variant of MayAcquire that lets a later request preempt the owner.
MayAcquireAlways(owner) == TRUE

\* if (!screenSharerId)
MayAcquire(owner) == owner = Null

\* Variants of IsOwner: any socket passes while a share is on / none ever does.
IsOwnerAny(owner, s) == owner # Null
IsOwnerNever(owner, s) == FALSE

\* if (screenSharerId === socket.id)
IsOwner(owner, s) == owner = s

\* Variant of CanUndo that pops whatever the length.
CanUndoAlways(hist) == TRUE

\* if (drawingHistory.length > 0)
CanUndo(hist) == Len(hist) > 0

\* getRandomColor(): '#' followed by six random hex digits; any of them may
\* come out of one call.
GetRandomColor == {"#000000", "#FFFFFF"}

\* name || `User-${socket.id.substr(0,4)}`
SafeName(name, s) == IF name # "" THEN name ELSE "User-" \o ToString(s)

\* ---------------------------------------------------------------- inputs
SeqsUpTo(S, n) == UNION {[1..k -> S] : k \in 0..n}

ArrayOf(items)  == [kind |-> "array",  items |-> items]
StringOf(items) == [kind |-> "string", items |-> items]
NullPayload     == [kind |-> "null",   items |-> <<>>]

\* what a client may send as a batch of ops / as a batch of ids
OpPayloads == {ArrayOf(b) : b \in SeqsUpTo(DrawOp, MaxBatch)} \cup {NullPayload}
IdPayloads == {ArrayOf(b) : b \in SeqsUpTo(Ids, MaxBatch)}
              \cup {StringOf(b) : b \in SeqsUpTo(Ids, 1) \ {<<>>}}
              \cup {NullPayload}

\* ------------------------------------------------------------------ Init
Init ==
    /\ drawingHistory = <<>>
    /\ userNames = <<>>
    /\ screenSharerId = Null
    /\ status = [c \in Conns |-> "new"]
    /\ crashed = FALSE
    /\ emitted = <<>>
    /\ lastEvent = [name |-> "none", from |-> Null, arg |-> Null]
    /\ initSeen = {}
    /\ joins = 0
    /\ leaves = 0

\* A socket may emit events while it is connected and the process is alive.
CanSend(s) == ~crashed /\ status[s] \in {"unjoined", "joined"}

\* io.on('connection', socket => ...): a fresh socket id enters the namespace.
Connect(s) ==
    /\ ~crashed
    /\ status[s] = "new"
    /\ status' = [status EXCEPT ![s] = "unjoined"]
    /\ emitted' = <<>>
    /\ lastEvent' = Event("connection", s, Null)
    /\ UNCHANGED <<drawingHistory, userNames, screenSharerId, crashed,
                   initSeen, joins, leaves>>

\* socket.on('join-room', name => ...)
JoinRoom(s, name) ==
    /\ CanSend(s)
    /\ joins < MaxJoins
    /\ LET safeName == SafeName(name, s)
           names    == MapSet(userNames, s, safeName)
           share    == IF screenSharerId # Null
                       THEN <<Emit("screen-share-active", {s},
                                   [sharerId |-> screenSharerId])>>
                       ELSE <<>>
       IN /\ userNames' = names
          /\ emitted' =
                <<Emit("user-notification", BroadcastTargets(s),
                       [type |-> "join", text |-> safeName \o " Joined"]),
                  Emit("init", {s}, InitPayload(drawingHistory)),
                  Emit("user-count", {s}, Len(names)),
                  Emit("user-count", BroadcastTargets(s), Len(names))>>
                \o share
                \o <<Emit("all-users", {s}, Without(Keys(names), s))>>
    /\ status' = [status EXCEPT ![s] = "joined"]
    /\ initSeen' = initSeen \cup {s}
    /\ joins' = joins + 1
    /\ lastEvent' = Event("join-room", s, name)
    /\ UNCHANGED <<drawingHistory, screenSharerId, crashed, leaves>>

\* socket.on('draw_batch', batch => ...)
DrawBatch(s, batch) ==
    /\ CanSend(s)
    /\ Len(drawingHistory) + Len(batch.items) <= MaxHist
    /\ IF batch.kind # "array"            \* if (!Array.isArray(batch)) return;
       THEN /\ emitted' = <<>>
            /\ UNCHANGED drawingHistory
       ELSE /\ drawingHistory' = drawingHistory \o batch.items
            /\ emitted' = <<Emit("draw_batch", BroadcastTargets(s), batch)>>
    /\ lastEvent' = Event("draw_batch", s, batch)
    /\ UNCHANGED <<userNames, screenSharerId, status, crashed, initSeen,
                   joins, leaves>>

\* socket.on('cursor', pos => ...)
Cursor(s, pos) ==
    /\ CanSend(s)
    /\ \E color \in GetRandomColor :
          emitted' = <<Emit("cursor", BroadcastTargets(s),
                            [id |-> s, x |-> pos.x, y |-> pos.y,
                             color |-> color])>>
    /\ lastEvent' = Event("cursor", s, pos)
    /\ UNCHANGED <<drawingHistory, userNames, screenSharerId, status, crashed,
                   initSeen, joins, leaves>>

\* socket.on('update_batch', updatedItems => ...)
\* Only an array has forEach: any other payload throws a TypeError, which
\* nothing catches, so the process terminates.
UpdateBatch(s, updatedItems) ==
    /\ CanSend(s)
    /\ IF updatedItems.kind # "array"
       THEN /\ crashed' = TRUE
            /\ emitted' = <<>>
            /\ UNCHANGED drawingHistory
       ELSE /\ drawingHistory' = UpdateAll(drawingHistory, updatedItems.items)
            /\ emitted' = <<Emit("update_batch", BroadcastTargets(s),
                                 updatedItems)>>
            /\ UNCHANGED crashed
    /\ lastEvent' = Event("update_batch", s, updatedItems)
    /\ UNCHANGED <<userNames, screenSharerId, status, initSeen, joins, leaves>>

\* socket.on('delete_batch', ids => ...)
\* Arrays and strings both have includes (for a string: substring test, which
\* for one-character ids is membership).  Any other payload throws as soon as
\* the filter callback runs, i.e. when the history is not empty.
DeleteBatch(s, ids) ==
    /\ CanSend(s)
    /\ IF ids.kind \notin {"array", "string"} /\ drawingHistory # <<>>
       THEN /\ crashed' = TRUE
            /\ emitted' = <<>>
            /\ UNCHANGED drawingHistory
       ELSE /\ drawingHistory' = FilterOut(drawingHistory, ids.items)
            /\ emitted' = <<Emit("delete_batch", BroadcastTargets(s), ids)>>
            /\ UNCHANGED crashed
    /\ lastEvent' = Event("delete_batch", s, ids)
    /\ UNCHANGED <<userNames, screenSharerId, status, initSeen, joins, leaves>>

\* socket.on('undo', () => ...)
Undo(s) ==
    /\ CanSend(s)
    /\ IF CanUndo(drawingHistory)
       THEN LET popped == SubSeq(drawingHistory, 1, Len(drawingHistory) - 1)
            IN /\ drawingHistory' = popped
               /\ emitted' = <<Emit("sync_history", IoEmitTargets, popped)>>
       ELSE /\ emitted' = <<>>
            /\ UNCHANGED drawingHistory
    /\ lastEvent' = Event("undo", s, Null)
    /\ UNCHANGED <<userNames, screenSharerId, status, crashed, initSeen,
                   joins, leaves>>

\* socket.on('clear', () => ...)
Clear(s) ==
    /\ CanSend(s)
    /\ drawingHistory' = <<>>
    /\ emitted' = <<Emit("clear", IoEmitTargets, Null)>>
    /\ lastEvent' = Event("clear", s, Null)
    /\ UNCHANGED <<userNames, screenSharerId, status, crashed, initSeen,
                   joins, leaves>>

\* socket.on('sending-signal', p => ...)
SendingSignal(s, p) ==
    /\ CanSend(s)
    /\ emitted' = <<Emit("user-joined-audio", RoomTargets(p.userToSignal),
                         [signal |-> p.signal, callerID |-> p.callerID])>>
    /\ lastEvent' = Event("sending-signal", s, p)
    /\ UNCHANGED <<drawingHistory, userNames, screenSharerId, status, crashed,
                   initSeen, joins, leaves>>

\* socket.on('returning-signal', p => ...)
ReturningSignal(s, p) ==
    /\ CanSend(s)
    /\ emitted' = <<Emit("receiving-returned-signal", RoomTargets(p.callerID),
                         [signal |-> p.signal, id |-> s])>>
    /\ lastEvent' = Event("returning-signal", s, p)
    /\ UNCHANGED <<drawingHistory, userNames, screenSharerId, status, crashed,
                   initSeen, joins, leaves>>

\* socket.on('ice-candidate', p => ...)
IceCandidate(s, p) ==
    /\ CanSend(s)
    /\ emitted' = <<Emit("ice-candidate", RoomTargets(p.target),
                         [candidate |-> p.candidate, sender |-> s])>>
    /\ lastEvent' = Event("ice-candidate", s, p)
    /\ UNCHANGED <<drawingHistory, userNames, screenSharerId, status, crashed,
                   initSeen, joins, leaves>>

\* socket.on('start-screen-share', () => ...)
StartScreenShare(s) ==
    /\ CanSend(s)
    /\ IF MayAcquire(screenSharerId)
       THEN /\ screenSharerId' = s
            /\ emitted' = <<Emit("screen-share-started", IoEmitTargets, s)>>
       ELSE /\ emitted' = <<>>
            /\ UNCHANGED screenSharerId
    /\ lastEvent' = Event("start-screen-share", s, Null)
    /\ UNCHANGED <<drawingHistory, userNames, status, crashed, initSeen,
                   joins, leaves>>

\* socket.on('stop-screen-share', () => ...)
StopScreenShare(s) ==
    /\ CanSend(s)
    /\ IF IsOwner(screenSharerId, s)
       THEN /\ screenSharerId' = Null
            /\ emitted' = <<Emit("screen-share-stopped", IoEmitTargets, Null)>>
       ELSE /\ emitted' = <<>>
            /\ UNCHANGED screenSharerId
    /\ lastEvent' = Event("stop-screen-share", s, Null)
    /\ UNCHANGED <<drawingHistory, userNames, status, crashed, initSeen,
                   joins, leaves>>

\* socket.on('screen-signal', p => ...)
ScreenSignal(s, p) ==
    /\ CanSend(s)
    /\ emitted' = <<Emit("screen-signal", RoomTargets(p.target),
                         [signal |-> p.signal, sender |-> s])>>
    /\ lastEvent' = Event("screen-signal", s, p)
    /\ UNCHANGED <<drawingHistory, userNames, screenSharerId, status, crashed,
                   initSeen, joins, leaves>>

\* socket.on('disconnect', () => ...)
\* The socket has left the namespace before the handler runs, so io.emit and
\* socket.broadcast.emit both reach the remaining sockets only.
Disconnect(s) ==
    /\ CanSend(s)
    /\ LET name      == MapGet(userNames, s)
           names     == MapDelete(userNames, s)
           remaining == Connected \ {s}
           owned     == IsOwner(screenSharerId, s)
           stop      == IF owned
                        THEN <<Emit("screen-share-stopped", remaining, Null)>>
                        ELSE <<>>
           left      == IF name # ""          \* if (name)
                        THEN <<Emit("user-notification", remaining,
                                    [type |-> "leave",
                                     text |-> name \o " Left"])>>
                        ELSE <<>>
       IN /\ userNames' = names
          /\ emitted' = <<Emit("user-disconnected", remaining, s),
                          Emit("user-count", remaining, Len(names))>>
                        \o stop \o left
          /\ screenSharerId' = IF owned THEN Null ELSE screenSharerId
    /\ status' = [status EXCEPT ![s] = "disconnected"]
    /\ leaves' = leaves + 1
    /\ lastEvent' = Event("disconnect", s, Null)
    /\ UNCHANGED <<drawingHistory, crashed, initSeen, joins>>

\* Signaling payloads: the fields the handlers read, each chosen by the client.
Signals == {"sdp"}
SendingPayloads   == [userToSignal : Conns, callerID : Conns, signal : Signals]
ReturningPayloads == [callerID : Conns, signal : Signals]
IcePayloads       == [target : Conns, candidate : Signals]
ScreenPayloads    == [target : Conns, signal : Signals]

\* Cursor positions.
CursorPayloads == [x : {0}, y : {0}]

Next ==
    \/ \E s \in Conns : Connect(s)
    \/ \E s \in Conns, name \in NameInputs : JoinRoom(s, name)
    \/ \E s \in Conns, batch \in OpPayloads : DrawBatch(s, batch)
    \/ \E s \in Conns, pos \in CursorPayloads : Cursor(s, pos)
    \/ \E s \in Conns, items \in OpPayloads : UpdateBatch(s, items)
    \/ \E s \in Conns, ids \in IdPayloads : DeleteBatch(s, ids)
    \/ \E s \in Conns : Undo(s)
    \/ \E s \in Conns : Clear(s)
    \/ \E s \in Conns, p \in SendingPayloads : SendingSignal(s, p)
    \/ \E s \in Conns, p \in ReturningPayloads : ReturningSignal(s, p)
    \/ \E s \in Conns, p \in IcePayloads : IceCandidate(s, p)
    \/ \E s \in Conns : StartScreenShare(s)
    \/ \E s \in Conns : StopScreenShare(s)
    \/ \E s \in Conns, p \in ScreenPayloads : ScreenSignal(s, p)
    \/ \E s \in Conns : Disconnect(s)

Spec == Init /\ [][Next]_vars

\* ======================================================================
\* Properties
\* ======================================================================
EmitsOf(evs) == {i \in DOMAIN emitted : emitted[i].ev \in evs}
EmitsOfNext(evs) == {i \in DOMAIN emitted' : emitted'[i].ev \in evs}

BatchEvents    == {"draw_batch", "update_batch", "delete_batch"}
MutationEvents == BatchEvents \cup {"sync_history", "clear"}
ForwardEvents  == {"user-joined-audio", "receiving-returned-signal",
                   "ice-candidate", "screen-signal"}
SignalEvents   == {"sending-signal", "returning-signal", "ice-candidate",
                   "screen-signal"}

\* C1: the drawing history never holds two entries with the same id, whatever
\* draw_batch, update_batch and delete_batch events were processed.
C1_NoDuplicateIds ==
    \A i, j \in DOMAIN drawingHistory :
        i # j => drawingHistory[i].id # drawingHistory[j].id

\* C2: a join-room step sends its sender exactly one init event, and the
\* history it carries is the drawing history as it was just before the step.
C2_InitIsSnapshot ==
    [][lastEvent'.name = "join-room" =>
          /\ Cardinality(EmitsOfNext({"init"})) = 1
          /\ \A i \in EmitsOfNext({"init"}) :
                /\ emitted'[i].to = {lastEvent'.from}
                /\ emitted'[i].data.history = drawingHistory]_vars

\* C2 witness: a join answered with a snapshot of a non-empty history while
\* another socket is connected.
C2_Witness ==
    /\ lastEvent.name = "join-room"
    /\ \E i \in EmitsOf({"init"}) : emitted[i].data.history # <<>>
    /\ Connected \ {lastEvent.from} # {}

\* C3: no history mutation event is delivered to a socket that has not yet
\* been sent its init snapshot.
C3_SnapshotThenStream ==
    \A i \in EmitsOf(MutationEvents) : emitted[i].to \subseteq initSeen

\* C4: start-screen-share while somebody owns the share changes nothing and
\* broadcasts nothing; with no owner it makes the sender the owner and
\* broadcasts screen-share-started to every connected socket.
C4_FirstComeFirstServed ==
    [][lastEvent'.name = "start-screen-share" =>
          IF screenSharerId # Null
          THEN screenSharerId' = screenSharerId /\ emitted' = <<>>
          ELSE /\ screenSharerId' = lastEvent'.from
               /\ emitted' = <<Emit("screen-share-started", Connected,
                                    lastEvent'.from)>>]_vars

\* C4 witness: a start-screen-share from a socket other than the owner has
\* just been processed and the owner is still in place.
C4_Witness ==
    /\ lastEvent.name = "start-screen-share"
    /\ screenSharerId # Null
    /\ screenSharerId # lastEvent.from
    /\ emitted = <<>>

\* C5: the owner stops being the owner only through its own
\* stop-screen-share or its own disconnect, and then the owner becomes
\* absent; stop-screen-share from anybody else changes and broadcasts nothing.
C5_OnlyOwnerReleases ==
    [][/\ (screenSharerId # Null /\ screenSharerId' # screenSharerId) =>
             /\ screenSharerId' = Null
             /\ lastEvent'.from = screenSharerId
             /\ lastEvent'.name \in {"stop-screen-share", "disconnect"}
       /\ (lastEvent'.name = "stop-screen-share"
             /\ lastEvent'.from # screenSharerId) =>
             /\ screenSharerId' = screenSharerId
             /\ emitted' = <<>>]_vars

\* C5 witness: a stop-screen-share from a socket other than the owner has
\* just been processed and the owner is still in place.
C5_Witness ==
    /\ lastEvent.name = "stop-screen-share"
    /\ screenSharerId # Null
    /\ screenSharerId # lastEvent.from
    /\ emitted = <<>>

\* C6: the disconnect of the owner leaves no owner and broadcasts exactly one
\* screen-share-stopped, to every remaining socket; the disconnect of any
\* other socket broadcasts none and leaves the owner as it was.
C6_DisconnectReleases ==
    [][lastEvent'.name = "disconnect" =>
          IF screenSharerId = lastEvent'.from
          THEN /\ screenSharerId' = Null
               /\ Cardinality(EmitsOfNext({"screen-share-stopped"})) = 1
               /\ \A i \in EmitsOfNext({"screen-share-stopped"}) :
                      emitted'[i].to = Connected'
          ELSE /\ screenSharerId' = screenSharerId
               /\ EmitsOfNext({"screen-share-stopped"}) = {}]_vars

\* C6 witness: the owner has just disconnected, another socket is still
\* connected and was sent the stop.
C6_Witness ==
    /\ lastEvent.name = "disconnect"
    /\ screenSharerId = Null
    /\ \E i \in EmitsOf({"screen-share-stopped"}) : emitted[i].to # {}

\* C7 as claimed: after N join-room events and M disconnect events, M <= N,
\* every user-count carries N - M.
C7_CountIsJoinsMinusLeaves ==
    leaves <= joins =>
        \A i \in EmitsOf({"user-count"}) : emitted[i].data = joins - leaves

\* C7 amended: every user-count carries the number of sockets that have joined
\* and not disconnected; a repeated join-room and the disconnect of a socket
\* that never joined do not change it.
C7_CountIsJoinedSockets ==
    \A i \in EmitsOf({"user-count"}) :
        emitted[i].data = Cardinality({c \in Conns : status[c] = "joined"})

\* C7 witness: a user-count sent after a repeated join-room, where the number
\* of joined sockets and the difference of the event counts disagree.
C7_Witness ==
    /\ lastEvent.name = "join-room"
    /\ joins - leaves > Cardinality({c \in Conns : status[c] = "joined"})
    /\ EmitsOf({"user-count"}) # {}

\* C8: draw_batch, update_batch, delete_batch, undo, clear and
\* start-screen-share from a socket that has not joined leave the drawing
\* history and the screen-share owner unchanged.
C8_UnjoinedIgnored ==
    [][(/\ lastEvent'.name \in BatchEvents \cup
                               {"undo", "clear", "start-screen-share"}
        /\ status[lastEvent'.from] = "unjoined") =>
          /\ drawingHistory' = drawingHistory
          /\ screenSharerId' = screenSharerId]_vars

\* C9: a batch event whose payload is not an array changes neither history,
\* registry nor owner, broadcasts nothing and does not bring the server down.
C9_MalformedIgnored ==
    [][(/\ lastEvent'.name \in BatchEvents
        /\ lastEvent'.arg.kind # "array") =>
          /\ drawingHistory' = drawingHistory
          /\ userNames' = userNames
          /\ screenSharerId' = screenSharerId
          /\ emitted' = <<>>
          /\ ~crashed']_vars

\* the identifier of the sender that a forwarded signaling event carries
CarriedSender(e) ==
    IF e.ev = "user-joined-audio" THEN e.data.callerID
    ELSE IF e.ev = "receiving-returned-signal" THEN e.data.id
    ELSE e.data.sender

\* the target that an inbound signaling event names
NamedTarget(e) ==
    IF e.name = "sending-signal" THEN e.arg.userToSignal
    ELSE IF e.name = "returning-signal" THEN e.arg.callerID
    ELSE e.arg.target

\* C10: a forwarded signaling event reaches nobody but the named target and
\* the sender identifier it carries is the id of the socket that emitted the
\* inbound event.
C10_ForwardedSenderIsEmitter ==
    lastEvent.name \in SignalEvents =>
        \A i \in EmitsOf(ForwardEvents) :
            /\ emitted[i].to \subseteq {NamedTarget(lastEvent)}
            /\ CarriedSender(emitted[i]) = lastEvent.from

\* C11: a signaling event whose target is not a connected socket is delivered
\* to nobody (so no error goes to the sender either) and changes neither
\* history, registry nor owner.
C11_AbsentTargetDropped ==
    [][(/\ lastEvent'.name \in SignalEvents
        /\ NamedTarget(lastEvent') \notin Connected) =>
          /\ \A i \in DOMAIN emitted' : emitted'[i].to = {}
          /\ drawingHistory' = drawingHistory
          /\ userNames' = userNames
          /\ screenSharerId' = screenSharerId
          /\ ~crashed']_vars

\* C11 witness: a signaling event naming a socket that has disconnected has
\* just been processed, and its one emit reached nobody.
C11_Witness ==
    /\ lastEvent.name \in SignalEvents
    /\ status[NamedTarget(lastEvent)] = "disconnected"
    /\ lastEvent.from \in Connected
    /\ Len(emitted) = 1
    /\ \A i \in DOMAIN emitted : emitted[i].to = {}

\* C12: undo on an empty history leaves it empty and broadcasts nothing.
C12_UndoOnEmpty ==
    [][(lastEvent'.name = "undo" /\ drawingHistory = <<>>) =>
          /\ drawingHistory' = <<>>
          /\ emitted' = <<>>]_vars

\* C12 witness: an undo has just been processed on an empty history while a
\* socket is connected that a sync_history would have reached.
C12_Witness ==
    /\ lastEvent.name = "undo"
    /\ drawingHistory = <<>>
    /\ emitted = <<>>
    /\ Connected # {}

\* C13: the name stored for a registered socket never changes while the
\* socket stays registered.
C13_NameImmutable ==
    [][\A c \in Conns :
          (HasKey(userNames, c) /\ HasKey(userNames', c)) =>
              MapGet(userNames', c) = MapGet(userNames, c)]_vars

\* C14: two cursor events relayed in a row from the same joined socket carry
\* the same color.
C14_CursorColorStable ==
    [][(/\ lastEvent.name = "cursor"
        /\ lastEvent'.name = "cursor"
        /\ lastEvent'.from = lastEvent.from
        /\ status[lastEvent.from] = "joined") =>
          \A i \in EmitsOf({"cursor"}), j \in EmitsOfNext({"cursor"}) :
              emitted'[j].data.color = emitted[i].data.color]_vars

\* C15: on the owner's disconnect no observer is sent the reduced user-count
\* before screen-share-stopped.
C15_StopBeforeCount ==
    lastEvent.name = "disconnect" =>
        \A i \in EmitsOf({"screen-share-stopped"}),
           j \in EmitsOf({"user-count"}) :
            (emitted[i].to \cap emitted[j].to # {}) => i < j

\* position k holds the first entry of hist with its id
IsFirstOfId(hist, k) == \A k2 \in 1..(k - 1) : hist[k2].id # hist[k].id

\* items[j] is the last op of items with its id
IsLastOfId(items, j) ==
    \A j2 \in (j + 1)..Len(items) : items[j2].id # items[j].id

\* C16: update_batch with an array keeps the length of the history and the id
\* at every position; the first entry with an id named in the batch becomes
\* the (last) op of the batch with that id, every other entry stays as it was,
\* and an op whose id is not in the history has no effect.
C16_UpdateInPlace ==
    [][(lastEvent'.name = "update_batch" /\ lastEvent'.arg.kind = "array") =>
          LET items == lastEvent'.arg.items
              old   == drawingHistory
              new   == drawingHistory'
          IN /\ Len(new) = Len(old)
             /\ \A k \in DOMAIN old :
                   /\ new[k].id = old[k].id
                   /\ IF IsFirstOfId(old, k)
                         /\ \E j \in DOMAIN items : items[j].id = old[k].id
                      THEN \E j \in DOMAIN items :
                              /\ items[j].id = old[k].id
                              /\ IsLastOfId(items, j)
                              /\ new[k] = items[j]
                      ELSE new[k] = old[k]]_vars

\* C16 witness: an update_batch has just replaced the second of two entries.
C16_Witness ==
    /\ lastEvent.name = "update_batch"
    /\ lastEvent.arg.kind = "array"
    /\ Len(drawingHistory) = 2
    /\ drawingHistory[1].id # drawingHistory[2].id
    /\ \E j \in DOMAIN lastEvent.arg.items :
          lastEvent.arg.items[j] = drawingHistory[2]

\* C17: delete_batch with an array of ids leaves exactly the entries whose id
\* is not listed, in their original order.
C17_DeleteExactly ==
    [][(lastEvent'.name = "delete_batch" /\ lastEvent'.arg.kind = "array") =>
          LET items   == lastEvent'.arg.items
              Keep(e) == \A j \in DOMAIN items : items[j] # e.id
          IN drawingHistory' = SelectSeq(drawingHistory, Keep)]_vars

\* C17 witness: a delete_batch naming an id has just been processed and an
\* entry with another id survives it.
C17_Witness ==
    /\ lastEvent.name = "delete_batch"
    /\ lastEvent.arg.kind = "array"
    /\ lastEvent.arg.items # <<>>
    /\ drawingHistory # <<>>
    /\ \A k \in DOMAIN drawingHistory, j \in DOMAIN lastEvent.arg.items :
          drawingHistory[k].id # lastEvent.arg.items[j]

\* C18: an array sent as draw_batch, update_batch or delete_batch is relayed,
\* as it came, to every connected socket but the sender; clear goes to every
\* connected socket, the sender included; and an undo on a non-empty history
\* sends every connected socket, the sender included, one sync_history carrying
\* the history without its last entry, which is the new history.
C18_FanOut ==
    [][/\ (lastEvent'.name \in BatchEvents /\ lastEvent'.arg.kind = "array") =>
             emitted' = <<Emit(lastEvent'.name,
                               Connected \ {lastEvent'.from}, lastEvent'.arg)>>
       /\ lastEvent'.name = "clear" =>
             /\ emitted' = <<Emit("clear", Connected, Null)>>
             /\ lastEvent'.from \in Connected
       /\ (lastEvent'.name = "undo" /\ drawingHistory # <<>>) =>
             /\ drawingHistory' =
                   SubSeq(drawingHistory, 1, Len(drawingHistory) - 1)
             /\ emitted' = <<Emit("sync_history", Connected, drawingHistory')>>
             /\ lastEvent'.from \in Connected]_vars

\* C18 witness: a draw_batch has just been relayed to the other socket and not
\* to its sender.
C18_Witness ==
    /\ lastEvent.name = "draw_batch"
    /\ lastEvent.arg.kind = "array"
    /\ Len(emitted) = 1
    /\ emitted[1].to # {}
    /\ lastEvent.from \notin emitted[1].to

\* C19: a join-room step sends its sender exactly one all-users, listing (once
\* each) exactly the registered ids other than its own, and sends it one
\* screen-share-active naming the owner when there is an owner, none otherwise.
C19_AllUsersComplete ==
    lastEvent.name = "join-room" =>
        /\ Cardinality(EmitsOf({"all-users"})) = 1
        /\ \A i \in EmitsOf({"all-users"}) :
              /\ emitted[i].to = {lastEvent.from}
              /\ {emitted[i].data[k] : k \in DOMAIN emitted[i].data}
                    = {userNames[k].id : k \in DOMAIN userNames}
                      \ {lastEvent.from}
              /\ Len(emitted[i].data) + 1 = Len(userNames)
        /\ IF screenSharerId # Null
           THEN /\ Cardinality(EmitsOf({"screen-share-active"})) = 1
                /\ \A i \in EmitsOf({"screen-share-active"}) :
                      /\ emitted[i].to = {lastEvent.from}
                      /\ emitted[i].data.sharerId = screenSharerId
           ELSE EmitsOf({"screen-share-active"}) = {}

\* C19 witness: a socket has just joined a room where another socket is
\* registered and owns the screen share.
C19_Witness ==
    /\ lastEvent.name = "join-room"
    /\ Len(userNames) = 2
    /\ screenSharerId \notin {Null, lastEvent.from}
    /\ EmitsOf({"screen-share-active"}) # {}

\* C20: every id in the registry, and the owner if there is one, is a socket
\* that has connected and has not disconnected.
C20_NoResidue ==
    /\ \A k \in DOMAIN userNames : userNames[k].id \in Connected
    /\ screenSharerId # Null => screenSharerId \in Connected

\* C20 witness: a registered socket that owned the screen share has just
\* disconnected while another socket stays registered.
C20_Witness ==
    /\ lastEvent.name = "disconnect"
    /\ lastEvent.from \in initSeen
    /\ EmitsOf({"screen-share-stopped"}) # {}
    /\ userNames # <<>>

====
